---- MODULE Spec2Model ----
(***************************************************************************)
(* A model of the StoryEngine core (src/story_engine/core.py) and of the   *)
(* parts of the terminal variant (src/story_engine.py) that differ.        *)
(*                                                                         *)
(* Python values are tagged records: D(f) a dict, S(s) a str, L(q) a list, *)
(* F(cb) a callable, PyNone.  A callback stored in the data is described   *)
(* by the Story method it calls, so that invoking it is an operator on the *)
(* Story state.  An uncaught exception is the value Raise(name).           *)
(***************************************************************************)
EXTENDS Integers, Sequences, FiniteSets, TLC

VARIABLES
    path,          \* Story.path
    hp,            \* Story._health._hp
    hist,          \* history: the modify_hp calls since hp was last set
    flags,         \* Story._flags
    inventory,     \* Story._inventory._items
    achievements,  \* Story._achievements._achievements
    map,           \* Story.map.nodes (its keys)
    file,          \* the content of the state file
    ret,           \* what the last foreground call returned (or raised)
    call,          \* history: the last foreground call and what it invoked
    tick_function, \* Story.tick_function: "none" or what the callback does
    auto_save,     \* Story.auto_save is set
    stop_flag,     \* Story._stop
    effects,       \* Story.effects: name -> Effect object (its id)
    eff,           \* the Effect objects made so far, with their history
    tick,          \* the tick thread: pc, and the locals of _update_effects
    fg,            \* the foreground thread: pc, and the history of stop()
    npcs,          \* Story.npcs: name -> NPC (its dialogue and dialogue_path)
    log,           \* Story._log.entries
    messages,      \* Story._messages
    ledger,        \* history: the last add or remove per slot, the last
                   \* description added per achievement name
    puzzle,        \* Story.current_puzzle: None or a Puzzle
    renderer       \* StoryApp.compose: pc, the messages it displayed last,
                   \* and the history of the messages printed and cleared

story == <<path, hp, hist, flags, inventory, achievements, map, ret>>
ticker == <<tick_function, auto_save, stop_flag, effects, eff, tick, fg>>
others == <<npcs, log, messages, ledger, puzzle, renderer>>
vars == <<story, file, call, ticker, others>>

----------------------------------------------------------------------------
(* Bounds of the model *)

MaxHp == 13
MaxMods == 3
MaxEffects == 2
MaxLog == 3
MaxPrints == 3

(* Program constants *)

InitialHp == 10

----------------------------------------------------------------------------
(* Python values *)

Max(a, b) == IF a >= b THEN a ELSE b
Min(a, b) == IF a <= b THEN a ELSE b

PyNone == [t |-> "none"]
D(f) == [t |-> "dict", d |-> f]
S(s) == [t |-> "str", s |-> s]
L(q) == [t |-> "list", l |-> q]
F(cb) == [t |-> "fn", f |-> cb]
Raise(e) == [t |-> "raise", e |-> e]
EmptyDict == D(<<>>)

Has(v, k) == v.t = "dict" /\ k \in DOMAIN v.d

\* Python truthiness of a value
Falsy(v) ==
    CASE v.t = "none" -> TRUE
      [] v.t = "dict" -> DOMAIN v.d = {}
      [] v.t = "str" -> v.s = ""
      [] v.t = "list" -> v.l = <<>>
      [] OTHER -> FALSE

\* callable(v)
Callable(v) == v.t = "fn"

----------------------------------------------------------------------------
(* The node database handed to Story.__init__, and the inputs of the calls *)

\* Callbacks stored in the data, named by the Story method they call
CbModifyHp(n) == [op |-> "modify_hp", amount |-> n]
CbSetFlag(k, v) == [op |-> "set_flag", key |-> k, value |-> v]
CbJumpTo(p) == [op |-> "jump_to", path |-> p]

StartNode ==
    D([condition |-> S("Forest"),
       function |-> F(CbModifyHp(-5)),
       answers |-> D(("go north" :> D([next_path |-> L(<<"cave">>)]))
                  @@ ("wait" :> D([function |-> F(CbSetFlag("waited", TRUE))]))
                  @@ ("fall" :> D([next_path |-> L(<<"pit">>)])))])

TrapNode ==
    D([condition |-> S("Trap"),
       function |-> F(CbJumpTo(<<"cave">>)),
       answers |-> D(("back" :> D([function |-> F(CbJumpTo(<<"cave", "void">>)),
                                   next_path |-> L(<<"start">>)])))])

NookNode ==
    D([condition |-> S("Nook"),
       answers |-> D(("run" :> D([function |-> F(CbJumpTo(<<"trap">>))]))
                  @@ ("slip" :> D([next_path |-> L(<<"cave", "condition", "x">>)])))])

CaveNode ==
    D([condition |-> S("Dark cave"), nook |-> NookNode, void |-> EmptyDict])

Database == D([start |-> StartNode, trap |-> TrapNode, cave |-> CaveNode])

\* Arguments of jump_to
Paths ==
    { <<"start">>, <<"trap">>, <<"cave", "nook">>, <<"cave", "void">>,
      <<"cave", "pit">>, <<"cave", "condition", "x">> }

\* Arguments of step: None or a string
Answers ==
    { PyNone } \cup { S(a) : a \in {"go north", "wait", "fall", "back",
                                    "run", "slip", "go south"} }

----------------------------------------------------------------------------
(* HealthSystem *)

\* modify_hp without the clamp
HealthSystem_modify_hp_unclamped(h, amount) == h + amount

\* HealthSystem.modify_hp (core.py): self._hp = max(0, self._hp + amount)
HealthSystem_modify_hp(h, amount) == Max(0, h + amount)

\* HealthSystem.modify_hp (story_engine.py): += amount, then reset when < 0
HealthSystem_modify_hp_tui(h, amount) ==
    LET h1 == h + amount IN IF h1 < 0 THEN 0 ELSE h1

\* History of the modify_hp calls since hp was last set: their number n, the
\* value h0 hp started from, the unclamped sum s = h0 + d1 + ... + dn and
\* m, the least of 0 and the unclamped partial sums h0 + d1 + ... + dk
\* (1 <= k <= n).  Calls beyond MaxMods are not followed.
NewHist(h0) == [n |-> 0, h0 |-> h0, s |-> h0, m |-> 0]
Untracked == [n |-> MaxMods + 1, h0 |-> 0, s |-> 0, m |-> 0]
HistAfter(h, amount) ==
    IF h.n >= MaxMods THEN Untracked
    ELSE [n |-> h.n + 1, h0 |-> h.h0, s |-> h.s + amount,
          m |-> Min(h.m, h.s + amount)]

----------------------------------------------------------------------------
(* Story: path traversal.  The operators below act on a record st of the   *)
(* Story fields a step can touch: path, hp, hist, flags, map, calls.       *)

\* register that keeps the path registered last only
StoryMap_register_last(m, p, node) == {p}

\* StoryMap.register: self.nodes[tuple(path)] = node.  The database is never
\* rewritten, so the node under a key is the database node at that key and
\* the dict is held as its set of keys.
StoryMap_register(m, p, node) == m \cup {p}

\* The loop of Story._get_node: node = node[step] for each segment.  A dict
\* without the key raises KeyError; any other value indexed by a string
\* raises TypeError.
RECURSIVE Walk(_, _)
Walk(node, p) ==
    IF p = <<>> THEN [exc |-> "", node |-> node]
    ELSE IF node.t = "dict"
         THEN IF Head(p) \in DOMAIN node.d
              THEN Walk(node.d[Head(p)], Tail(p))
              ELSE [exc |-> "KeyError", node |-> PyNone]
         ELSE [exc |-> "TypeError", node |-> PyNone]

\* Story._get_node: registers and returns the node; {} on KeyError; any
\* other exception propagates
get_node(st) ==
    LET w == Walk(Database, st.path) IN
    CASE w.exc = "" ->
           [st |-> [st EXCEPT !.map = StoryMap_register(st.map, st.path, w.node)],
            exc |-> "", node |-> w.node]
      [] w.exc = "KeyError" -> [st |-> st, exc |-> "", node |-> EmptyDict]
      [] OTHER -> [st |-> st, exc |-> w.exc, node |-> PyNone]

\* A callback of the data invoked with the Story; who is recorded in calls
Invoke(st, cb, who) ==
    LET s1 == [st EXCEPT !.calls = Append(st.calls, who)] IN
    CASE cb.op = "modify_hp" ->
           [s1 EXCEPT !.hp = HealthSystem_modify_hp(st.hp, cb.amount),
                      !.hist = HistAfter(st.hist, cb.amount)]
      [] cb.op = "set_flag" ->
           [s1 EXCEPT !.flags = [k \in DOMAIN st.flags \cup {cb.key} |->
                                   IF k = cb.key THEN cb.value ELSE st.flags[k]]]
      [] cb.op = "jump_to" -> [s1 EXCEPT !.path = cb.path]
      [] OTHER -> s1

\* if "function" in v and callable(v["function"]): v["function"](self)
InvokeFunctionOf(st, v, who) ==
    IF Has(v, "function") /\ Callable(v.d["function"])
    THEN Invoke(st, v.d["function"].f, who)
    ELSE st

\* return self._get_node(), the last line of step
ReturnNode(st) ==
    LET g == get_node(st) IN
    [st |-> g.st, ret |-> IF g.exc = "" THEN g.node ELSE Raise(g.exc)]

ErrBadPath == D([error |-> S("bad path")])
ErrBadChoice == D([error |-> S("bad choice")])

\* StepAnswer with the cursor advanced before the answer is validated, the
\* way the terminal variant appends ["answers", label]
StepAnswer_advances(st, node, answer) ==
    IF node.t # "dict" THEN [st |-> st, ret |-> Raise("AttributeError")]
    ELSE
    LET answers == IF Has(node, "answers") THEN node.d["answers"] ELSE EmptyDict IN
    IF ~Has(answers, answer.s)
    THEN [st |-> [st EXCEPT !.path = st.path \o <<"answers", answer.s>>],
          ret |-> ErrBadChoice]
    ELSE
    LET choice_data == answers.d[answer.s]
        s2 == InvokeFunctionOf(st, choice_data, "choice")
        s3 == IF Has(choice_data, "next_path") /\ choice_data.d["next_path"].t # "none"
              THEN [s2 EXCEPT !.path = choice_data.d["next_path"].l]
              ELSE s2
    IN ReturnNode(s3)

\* StepAnswer with the cursor replaced before the choice's function is
\* invoked
StepAnswer_moves_first(st, node, answer) ==
    IF node.t # "dict" THEN [st |-> st, ret |-> Raise("AttributeError")]
    ELSE
    LET answers == IF Has(node, "answers") THEN node.d["answers"] ELSE EmptyDict IN
    IF ~Has(answers, answer.s) THEN [st |-> st, ret |-> ErrBadChoice]
    ELSE
    LET choice_data == answers.d[answer.s]
        s2 == IF Has(choice_data, "next_path") /\ choice_data.d["next_path"].t # "none"
              THEN [st EXCEPT !.path = choice_data.d["next_path"].l]
              ELSE st
        s3 == InvokeFunctionOf(s2, choice_data, "choice")
    IN ReturnNode(s3)

\* The part of step after the entry function, for an answer that is not None
StepAnswer(st, node, answer) ==
    IF node.t # "dict" THEN [st |-> st, ret |-> Raise("AttributeError")]
    ELSE
    LET answers == IF Has(node, "answers") THEN node.d["answers"] ELSE EmptyDict IN
    IF ~Has(answers, answer.s) THEN [st |-> st, ret |-> ErrBadChoice]
    ELSE
    LET choice_data == answers.d[answer.s]
        s2 == InvokeFunctionOf(st, choice_data, "choice")
        s3 == IF Has(choice_data, "next_path") /\ choice_data.d["next_path"].t # "none"
              THEN [s2 EXCEPT !.path = choice_data.d["next_path"].l]
              ELSE s2
    IN ReturnNode(s3)

\* Story.step
StepResult(st, answer) ==
    LET g == get_node(st) IN
    IF g.exc # "" THEN [st |-> g.st, ret |-> Raise(g.exc)]
    ELSE IF Falsy(g.node) THEN [st |-> g.st, ret |-> ErrBadPath]
    ELSE
    LET s1 == InvokeFunctionOf(g.st, g.node, "node") IN
    IF answer.t # "none" THEN StepAnswer(s1, g.node, answer)
    ELSE ReturnNode(s1)

----------------------------------------------------------------------------
(* Inventory, Achievements: Python dicts keep insertion order, so a dict   *)
(* whose order matters is a sequence of <<key, value>> pairs.              *)

Slots ==
    << "Head", "Neck", "Ears", "Mouth", "Right hand", "Left hand", "Back",
       "Right leg", "Left leg", "Right leg bottom", "Left leg bottom" >>

Keys(od) == { od[i][1] : i \in DOMAIN od }
Lookup(od, k) == od[CHOOSE i \in DOMAIN od : od[i][1] = k][2]

\* od[k] = v on an insertion-ordered dict
Store(od, k, v) ==
    IF k \in Keys(od)
    THEN [i \in DOMAIN od |-> IF od[i][1] = k THEN <<k, v>> ELSE od[i]]
    ELSE Append(od, <<k, v>>)

\* Inventory.__init__: every slot holds the empty list
Inventory_init == [i \in DOMAIN Slots |-> <<Slots[i], <<>> >>]

\* add_item that keeps the item of an occupied slot
Inventory_add_item_keeps(items, slot, item, description, function) ==
    IF slot \in Keys(items) /\ Lookup(items, slot) # <<>> THEN items
    ELSE Store(items, slot, <<item, description, function>>)

\* Inventory.add_item: self._items[slot] = [item, description, function]
Inventory_add_item(items, slot, item, description, function) ==
    Store(items, slot, <<item, description, function>>)

\* Inventory.remove_item: self._items[slot] = []
Inventory_remove_item(items, slot) == Store(items, slot, <<>>)

\* Inventory.get_items: the slots whose list is not empty
Inventory_get_items(items) == SelectSeq(items, LAMBDA e : e[2] # <<>>)

\* add_achievement that keeps the description a name already has
Achievements_add_achievement_first(a, name, description) ==
    [k \in DOMAIN a \cup {name} |-> IF k \in DOMAIN a THEN a[k] ELSE description]

\* Achievements.add_achievement: self._achievements[name] = description
Achievements_add_achievement(a, name, description) ==
    [k \in DOMAIN a \cup {name} |-> IF k = name THEN description ELSE a[k]]

\* Inventory.get_items of the terminal variant: every slot
Inventory_get_items_tui(items) == items

\* Story.get_items of the terminal variant: name and description of the
\* slots whose list is not empty
Story_get_items_tui(items) ==
    LET all == Inventory_get_items_tui(items) IN
    [k \in { all[i][1] : i \in { j \in DOMAIN all : all[j][2] # <<>> } } |->
        [name |-> Lookup(all, k)[1], description |-> Lookup(all, k)[2]]]

\* Story.get_items: name and description of every slot get_items reports
Story_get_items(items) ==
    [k \in Keys(Inventory_get_items(items)) |->
        [name |-> Lookup(items, k)[1], description |-> Lookup(items, k)[2]]]

\* History of the calls on the inventory and the achievements: per slot the
\* item of the last add_item, or <<>> after a remove_item; the slots ever
\* added; per achievement name the description of the last add_achievement
NewLedger == [slots |-> <<>>, added |-> {}, ach |-> <<>>]

Noted(f, k, v) == [x \in DOMAIN f \cup {k} |-> IF x = k THEN v ELSE f[x]]

----------------------------------------------------------------------------
(* The state file *)

NoFile == [t |-> "missing"]
Garbage == [t |-> "garbage"]
Json(d) == [t |-> "json", d |-> d]

\* The dict save_state of the terminal variant dumps: no flags, no path
SavedState_tui(h, items, ach) ==
    [hp |-> h,
     inventory |-> [i \in DOMAIN Inventory_get_items(items) |->
                      << Inventory_get_items(items)[i][1],
                         SubSeq(Inventory_get_items(items)[i][2], 1, 2) >>],
     achievements |-> ach]

\* save_state that leaves the flags and the path out of the file
SavedState_without_flags(h, items, ach, fl, p) == SavedState_tui(h, items, ach)

\* The dict save_state dumps
SavedState(h, items, ach, fl, p) ==
    [hp |-> h,
     inventory |-> [i \in DOMAIN Inventory_get_items(items) |->
                      << Inventory_get_items(items)[i][1],
                         SubSeq(Inventory_get_items(items)[i][2], 1, 2) >>],
     achievements |-> ach,
     flags |-> fl,
     path |-> p]

\* state.get(key, default)
Get(d, key, default) == IF key \in DOMAIN d THEN d[key] ELSE default

\* The loop of load_state over the saved inventory: add_item(slot, data[0],
\* data[1], no-op); data[0] or data[1] out of range raises IndexError and
\* leaves the items added so far
RECURSIVE LoadItems(_, _)
LoadItems(items, saved) ==
    IF saved = <<>> THEN [items |-> items, exc |-> ""]
    ELSE LET slot == Head(saved)[1]
             data == Head(saved)[2]
         IN IF Len(data) < 2 THEN [items |-> items, exc |-> "IndexError"]
            ELSE LoadItems(Inventory_add_item(items, slot, data[1], data[2], "noop"),
                           Tail(saved))

RECURSIVE LoadAchievements(_, _, _)
LoadAchievements(a, saved, todo) ==
    IF todo = {} THEN a
    ELSE LET k == CHOOSE k \in todo : TRUE
         IN LoadAchievements(Achievements_add_achievement(a, k, saved[k]),
                             saved, todo \ {k})

\* Story.load_state of the terminal variant, on the fields cur it assigns:
\* state["hp"], state["achievements"] and state["inventory"] are read in
\* this order, each after the field before it was assigned; any exception
\* is caught and printed
LoadState_tui(f, cur) ==
    IF f.t \in {"missing", "garbage"} \/ "hp" \notin DOMAIN f.d
    THEN [cur EXCEPT !.error = TRUE]
    ELSE IF "achievements" \notin DOMAIN f.d
    THEN [hp |-> f.d.hp, achievements |-> <<>>, inventory |-> cur.inventory,
          error |-> TRUE]
    ELSE LET ach == LoadAchievements(<<>>, f.d.achievements,
                                     DOMAIN f.d.achievements)
         IN IF "inventory" \notin DOMAIN f.d
            THEN [hp |-> f.d.hp, achievements |-> ach,
                  inventory |-> Inventory_init, error |-> TRUE]
            ELSE LET li == LoadItems(Inventory_init, f.d.inventory)
                 IN [hp |-> f.d.hp, achievements |-> ach,
                     inventory |-> li.items, error |-> li.exc # ""]

\* Files written by something other than save_state
NavFiles == { Json([hp |-> 2, path |-> <<"pit">>]) }

ExternalFiles ==
    { NoFile, Garbage,
      Json([hp |-> -2]),
      Json([hp |-> 4, path |-> <<"cave", "pit">>,
            inventory |-> << <<"Head", <<"Helm", "Iron">> >> >>,
            achievements |-> [First |-> "Left the village"],
            flags |-> [waited |-> FALSE]]),
      Json([path |-> <<"cave", "nook">>,
            inventory |-> << <<"Tail", <<"Bell", "Brass">> >>,
                             <<"Neck", <<"Amulet">> >> >>]) }

----------------------------------------------------------------------------
(* Story: the foreground calls *)

Called(op, answer, calls) ==
    [op |-> op, answer |-> answer, path0 |-> path, calls |-> calls]

\* Story.__init__ without the tick configuration
InitStory ==
    /\ path = <<>>
    /\ hp = InitialHp
    /\ hist = NewHist(InitialHp)
    /\ flags = <<>>
    /\ inventory = Inventory_init
    /\ achievements = <<>>
    /\ map = {}
    /\ file = NoFile
    /\ ret = PyNone
    /\ call = [op |-> "init", answer |-> PyNone, path0 |-> <<>>, calls |-> <<>>]
    /\ stop_flag = FALSE
    /\ effects = <<>>
    /\ eff = <<>>
    /\ fg = [pc |-> "ready", stop |-> ""]
    /\ npcs = <<>>
    /\ log = <<>>
    /\ messages = <<>>
    /\ ledger = NewLedger
    /\ puzzle = PyNone
    /\ renderer = [pc |-> "idle", shown |-> <<>>, lost |-> {}, n |-> 0]

\* Story.__init__ with no tick_function: no thread is started
Init ==
    /\ InitStory
    /\ tick_function = "none"
    /\ auto_save = FALSE
    /\ tick = [pc |-> "none", snapshot |-> <<>>, expired |-> <<>>]

\* Story.step(answer)
step(answer) ==
    LET st0 == [path |-> path, hp |-> hp, hist |-> hist, flags |-> flags,
                map |-> map, calls |-> <<>>]
        r == StepResult(st0, answer)
    IN /\ path' = r.st.path
       /\ hp' = r.st.hp
       /\ hist' = r.st.hist
       /\ flags' = r.st.flags
       /\ map' = r.st.map
       /\ ret' = r.ret
       /\ call' = Called("step", answer, r.st.calls)
       /\ UNCHANGED <<inventory, achievements, file, ticker, others>>

\* Story.jump_to(new_path): self.path = new_path.copy()
jump_to(new_path) ==
    /\ path' = new_path
    /\ ret' = PyNone
    /\ call' = Called("jump_to", PyNone, <<>>)
    /\ UNCHANGED <<hp, hist, flags, inventory, achievements, map, file, ticker>>
    /\ UNCHANGED others

\* Story.modify_hp(amount)
modify_hp(amount) ==
    /\ hp + amount <= MaxHp
    /\ hp' = HealthSystem_modify_hp(hp, amount)
    /\ hist' = HistAfter(hist, amount)
    /\ ret' = PyNone
    /\ call' = Called("modify_hp", PyNone, <<>>)
    /\ UNCHANGED <<path, flags, inventory, achievements, map, file, ticker>>
    /\ UNCHANGED others

\* Story.save_state(filename)
save_state ==
    /\ file' = Json(SavedState(hp, inventory, achievements, flags, path))
    /\ ret' = PyNone
    /\ call' = Called("save_state", PyNone, <<>>)
    /\ UNCHANGED <<path, hp, hist, flags, inventory, achievements, map, ticker>>
    /\ UNCHANGED others

\* What the queries of a Story return: get_hp, get_items, get_achievements,
\* get_all_flags and the path
Observed ==
    [hp |-> hp, items |-> Story_get_items(inventory),
     achievements |-> achievements, flags |-> flags, path |-> path]

\* The ledger after load_state: a new Inventory with an add_item per item
\* loaded, and an add_achievement per achievement loaded
LedgerAfterLoad(items, ach) ==
    [slots |-> [k \in Keys(Inventory_get_items(items)) |->
                  SubSeq(Lookup(items, k), 1, 2)],
     added |-> Keys(Inventory_get_items(items)),
     ach |-> [k \in DOMAIN ledger.ach \cup DOMAIN ach |->
                IF k \in DOMAIN ach THEN ach[k] ELSE ledger.ach[k]]]

\* The load fails: open or json.load raises, or an inventory entry is too
\* short
LoadFails(f) ==
    \/ f.t \in {"missing", "garbage"}
    \/ LoadItems(Inventory_init, Get(f.d, "inventory", <<>>)).exc # ""

\* Story.load_state(filename) of core.py: open and json.load raise on a
\* missing or malformed file before any field is assigned; the fields are
\* then assigned one by one, so an exception in the inventory loop leaves
\* the ones assigned before it.  The call records what the queries returned
\* before it when it fails and when it reads the file the call before it
\* saved.
load_state ==
    /\ call' = [op |-> "load_state", answer |-> PyNone, path0 |-> path,
                calls |-> <<>>,
                after_save |-> /\ call.op = "save_state"
                               /\ file = Json(SavedState(hp, inventory,
                                                  achievements, flags, path)),
                before |-> IF \/ LoadFails(file)
                              \/ /\ call.op = "save_state"
                                 /\ file = Json(SavedState(hp, inventory,
                                                    achievements, flags, path))
                           THEN Observed ELSE PyNone]
    /\ UNCHANGED <<map, ticker, npcs, log, messages, puzzle, renderer>>
    /\ IF file.t = "missing"
       THEN /\ ret' = Raise("FileNotFoundError")
            /\ UNCHANGED <<path, hp, hist, flags, inventory, achievements,
                           file, ledger>>
       ELSE IF file.t = "garbage"
       THEN /\ ret' = Raise("JSONDecodeError")
            /\ UNCHANGED <<path, hp, hist, flags, inventory, achievements,
                           file, ledger>>
       ELSE LET state == file.d
                h == Get(state, "hp", 0)
                ach == Get(state, "achievements", <<>>)
                li == LoadItems(Inventory_init, Get(state, "inventory", <<>>))
            IN /\ hp' = h
               /\ hist' = NewHist(h)
               /\ achievements' = LoadAchievements(<<>>, ach, DOMAIN ach)
               /\ inventory' = li.items
               /\ ledger' = LedgerAfterLoad(li.items, ach)
               /\ IF li.exc # ""
                  THEN /\ ret' = Raise(li.exc)
                       /\ UNCHANGED <<flags, path>>
                  ELSE /\ ret' = PyNone
                       /\ flags' = Get(state, "flags", <<>>)
                       /\ path' = Get(state, "path", <<>>)
               /\ UNCHANGED file

\* The environment replaces the state file
ExternalWrite(f) ==
    /\ file' = f
    /\ UNCHANGED <<story, call, ticker>>
    /\ UNCHANGED others

----------------------------------------------------------------------------
(* Specifications *)

\* Navigation: the path cursor under step, jump_to and load_state
NextNav ==
    \/ \E answer \in Answers : step(answer)
    \/ \E new_path \in Paths : jump_to(new_path)
    \/ load_state
    \/ \E f \in NavFiles : ExternalWrite(f)

SpecNav == Init /\ [][NextNav]_vars

\* Hit points under modify_hp, save_state and load_state
Amounts == {-12, -4, -1, 3}

NextHp ==
    \/ \E amount \in Amounts : modify_hp(amount)
    \/ save_state
    \/ load_state
    \/ \E f \in ExternalFiles : ExternalWrite(f)

SpecHp == Init /\ [][NextHp]_vars

----------------------------------------------------------------------------
(* Story: inventory, achievements and flags *)

\* Story.add_item(slot, item, description, function)
add_item(slot, item, description, function) ==
    /\ inventory' = Inventory_add_item(inventory, slot, item, description, function)
    /\ ledger' = [ledger EXCEPT !.slots = Noted(@, slot, <<item, description>>),
                                !.added = @ \cup {slot}]
    /\ ret' = PyNone
    /\ call' = [op |-> "add_item", answer |-> S(slot), path0 |-> path,
                calls |-> <<>>, before |-> Story_get_items(inventory)]
    /\ UNCHANGED <<path, hp, hist, flags, achievements, map, file, ticker,
                   npcs, log, messages, puzzle, renderer>>

\* Story.remove_item(slot)
remove_item(slot) ==
    /\ inventory' = Inventory_remove_item(inventory, slot)
    /\ ledger' = [ledger EXCEPT !.slots = Noted(@, slot, <<>>)]
    /\ ret' = PyNone
    /\ call' = Called("remove_item", S(slot), <<>>)
    /\ UNCHANGED <<path, hp, hist, flags, achievements, map, file, ticker,
                   npcs, log, messages, puzzle, renderer>>

\* Story.add_achievement(name, description)
add_achievement(name, description) ==
    /\ achievements' = Achievements_add_achievement(achievements, name, description)
    /\ ledger' = [ledger EXCEPT !.ach = Noted(@, name, description)]
    /\ ret' = PyNone
    /\ call' = Called("add_achievement", S(name), <<>>)
    /\ UNCHANGED <<path, hp, hist, flags, inventory, map, file, ticker,
                   npcs, log, messages, puzzle, renderer>>

\* Story.set_flag(key, value): self._flags[key] = value
set_flag(key, value) ==
    /\ flags' = [k \in DOMAIN flags \cup {key} |->
                   IF k = key THEN value ELSE flags[k]]
    /\ ret' = PyNone
    /\ call' = Called("set_flag", S(key), <<>>)
    /\ UNCHANGED <<path, hp, hist, inventory, achievements, map, file, ticker,
                   others>>

\* The inventory under add_item and remove_item
InvSlots == {"Head", "Neck", "Tail"}
InvItems == { <<"Helm", "Iron">>, <<"Cap", "Wool">> }

NextInv ==
    \/ \E slot \in InvSlots, it \in InvItems : add_item(slot, it[1], it[2], "equip")
    \/ \E slot \in InvSlots : remove_item(slot)

SpecInv == Init /\ [][NextInv]_vars

\* Saving and loading: the state built by the calls below, saved, loaded,
\* and loaded from files that something else wrote
SaveFiles ==
    { NoFile, Garbage,
      Json([hp |-> 4,
            achievements |-> [First |-> "Left the village"],
            inventory |-> << <<"Tail", <<"Bell", "Brass">> >>,
                             <<"Neck", <<"Amulet">> >> >>]) }

Descriptions == {"Left the village", "Came back"}

NextSave ==
    \/ add_item("Head", "Helm", "Iron", "equip")
    \/ remove_item("Head")
    \/ \E description \in Descriptions : add_achievement("First", description)
    \/ set_flag("waited", TRUE)
    \/ jump_to(<<"start">>)
    \/ save_state
    \/ load_state
    \/ \E f \in SaveFiles : ExternalWrite(f)

SpecSave == Init /\ [][NextSave]_vars

----------------------------------------------------------------------------
(* NPC: a dialogue tree and a cursor of its own.  Story.npcs maps a name   *)
(* to [dialogue, dialogue_path]; the dialogue is named and never rewritten. *)

MerchantDialogue ==
    D([text |-> S("Welcome"),
       responses |-> D(("buy" :> D([next |-> L(<<"shop">>)]))
                    @@ ("leave" :> D([next |-> L(<<"street">>)]))
                    @@ ("nod" :> EmptyDict)),
       shop |-> D([text |-> S("Wares"),
                   responses |-> D(("back" :> D([next |-> L(<<>>)])))])])

GuardDialogue ==
    D([text |-> S("Halt"),
       responses |-> D(("pass" :> D([next |-> L(<<"gate">>)]))),
       gate |-> D([text |-> S("Go on")])])

NpcNames == {"merchant", "guard"}
DialogueOf(name) == IF name = "merchant" THEN MerchantDialogue ELSE GuardDialogue

\* Arguments of talk_to: a name, registered or not, and None or a string
TalkNames == NpcNames \cup {"ghost"}
Choices == { PyNone } \cup { S(c) : c \in {"buy", "leave", "nod", "back", "pass"} }

\* NPC.__init__
NPC(name) == [dialogue |-> name, dialogue_path |-> <<>>]

\* EventLog.log: an entry (message, style), appended to the log and printed
Entry(message) == <<message, "info">>

ErrInvalidChoice == D([error |-> S("Invalid choice.")])

\* talk that moves the cursor to the root on a choice the node does not have
NPC_talk_resets(name, npc, choice) ==
    LET w == Walk(DialogueOf(npc.dialogue), npc.dialogue_path) IN
    IF w.exc # "" THEN [npc |-> npc, ret |-> Raise(w.exc), entries |-> <<>>]
    ELSE IF w.node.t # "dict"
    THEN [npc |-> npc, ret |-> Raise("AttributeError"), entries |-> <<>>]
    ELSE
    LET node == w.node
        text == IF Has(node, "text") THEN node.d["text"].s ELSE ""
        entries == << Entry(<<"Talking to", name, text>>) >>
        answers == IF Has(node, "responses") THEN node.d["responses"] ELSE EmptyDict
    IN IF Falsy(choice) THEN [npc |-> npc, ret |-> node, entries |-> entries]
       ELSE IF ~Has(answers, choice.s)
       THEN [npc |-> [npc EXCEPT !.dialogue_path = <<>>],
             ret |-> ErrInvalidChoice, entries |-> entries]
       ELSE
       LET next == IF Has(answers.d[choice.s], "next")
                   THEN answers.d[choice.s].d["next"].l ELSE <<>>
           w2 == Walk(DialogueOf(npc.dialogue), next)
       IN [npc |-> [npc EXCEPT !.dialogue_path = next],
           ret |-> IF w2.exc = "" THEN w2.node ELSE Raise(w2.exc),
           entries |-> entries]

\* NPC.talk(story, choice).  NPC._get_node indexes the dialogue along the
\* cursor without catching anything; the result holds the NPC after the
\* call, what the call returned or raised, and the entries it logged
NPC_talk(name, npc, choice) ==
    LET w == Walk(DialogueOf(npc.dialogue), npc.dialogue_path) IN
    IF w.exc # "" THEN [npc |-> npc, ret |-> Raise(w.exc), entries |-> <<>>]
    ELSE IF w.node.t # "dict"
    THEN [npc |-> npc, ret |-> Raise("AttributeError"), entries |-> <<>>]
    ELSE
    LET node == w.node
        text == IF Has(node, "text") THEN node.d["text"].s ELSE ""
        entries == << Entry(<<"Talking to", name, text>>) >>
        answers == IF Has(node, "responses") THEN node.d["responses"] ELSE EmptyDict
    IN IF Falsy(choice) THEN [npc |-> npc, ret |-> node, entries |-> entries]
       ELSE IF ~Has(answers, choice.s)
       THEN [npc |-> npc, ret |-> ErrInvalidChoice, entries |-> entries]
       ELSE
       LET next == IF Has(answers.d[choice.s], "next")
                   THEN answers.d[choice.s].d["next"].l ELSE <<>>
           w2 == Walk(DialogueOf(npc.dialogue), next)
       IN [npc |-> [npc EXCEPT !.dialogue_path = next],
           ret |-> IF w2.exc = "" THEN w2.node ELSE Raise(w2.exc),
           entries |-> entries]

\* What a call can be compared against afterwards
Before ==
    [observed |-> Observed, npcs |-> npcs, log |-> log, messages |-> messages,
     map |-> map, file |-> file, puzzle |-> puzzle]

\* Story.register_npc(npc), with a new NPC of that name
register_npc(name) ==
    /\ npcs' = Noted(npcs, name, NPC(name))
    /\ ret' = PyNone
    /\ call' = Called("register_npc", S(name), <<>>)
    /\ UNCHANGED <<path, hp, hist, flags, inventory, achievements, map, file,
                   ticker, log, messages, ledger, puzzle, renderer>>

\* Story.talk_to(npc_name, choice): None when no NPC has that name
talk_to(npc_name, choice) ==
    /\ Len(log) < MaxLog
    /\ call' = [op |-> "talk_to", answer |-> choice, path0 |-> path,
                calls |-> <<>>, name |-> npc_name, before |-> Before]
    /\ IF npc_name \notin DOMAIN npcs
       THEN /\ ret' = PyNone
            /\ UNCHANGED <<npcs, log, messages>>
       ELSE LET r == NPC_talk(npc_name, npcs[npc_name], choice)
            IN /\ npcs' = [npcs EXCEPT ![npc_name] = r.npc]
               /\ log' = log \o r.entries
               /\ messages' = messages \o r.entries
               /\ ret' = r.ret
    /\ UNCHANGED <<path, hp, hist, flags, inventory, achievements, map, file,
                   ticker, ledger, puzzle, renderer>>

NextNpc ==
    \/ \E name \in NpcNames : register_npc(name)
    \/ \E npc_name \in TalkNames, choice \in Choices : talk_to(npc_name, choice)
    \/ \E answer \in {PyNone, S("go north")} : step(answer)
    \/ jump_to(<<"start">>)

SpecNpc == Init /\ [][NextNpc]_vars

----------------------------------------------------------------------------
(* Puzzle *)

B(b) == [t |-> "bool", b |-> b]

\* Puzzle.__init__(question, options, answer_index, on_success, on_fail)
Puzzle(question, options, answer_index, on_success, on_fail) ==
    [t |-> "puzzle", question |-> question, options |-> options,
     answer_index |-> answer_index, on_success |-> on_success,
     on_fail |-> on_fail]

Puzzles ==
    { Puzzle("Riddle", <<"egg", "sun", "sea">>, 1,
             F(CbSetFlag("solved", TRUE)), F(CbModifyHp(-1))),
      Puzzle("Door", <<"left", "right">>, 0, PyNone, F(CbModifyHp(-1))),
      Puzzle("Coin", <<"heads", "tails">>, 1, F(CbSetFlag("lucky", TRUE)), PyNone) }

\* Arguments of attempt
Indexes == {0, 1, 2}

\* if cb: cb(story)
InvokeIfSet(st, v, who) == IF Falsy(v) THEN st ELSE Invoke(st, v.f, who)

\* attempt that fails once a failure of the puzzle is in the log
Puzzle_attempt_lockout(st, lg, p, choice_index) ==
    IF /\ choice_index = p.answer_index
       /\ Entry(<<"Puzzle failed", p.question>>) \notin { lg[i] : i \in DOMAIN lg }
    THEN [st |-> InvokeIfSet(st, p.on_success, "on_success"),
          log |-> Append(lg, Entry(<<"Puzzle solved", p.question>>)),
          ret |-> B(TRUE)]
    ELSE [st |-> InvokeIfSet(st, p.on_fail, "on_fail"),
          log |-> Append(lg, Entry(<<"Puzzle failed", p.question>>)),
          ret |-> B(FALSE)]

\* Puzzle.attempt(story, choice_index) on the Story fields st and the log lg
Puzzle_attempt(st, lg, p, choice_index) ==
    IF choice_index = p.answer_index
    THEN [st |-> InvokeIfSet(st, p.on_success, "on_success"),
          log |-> Append(lg, Entry(<<"Puzzle solved", p.question>>)),
          ret |-> B(TRUE)]
    ELSE [st |-> InvokeIfSet(st, p.on_fail, "on_fail"),
          log |-> Append(lg, Entry(<<"Puzzle failed", p.question>>)),
          ret |-> B(FALSE)]

\* story.current_puzzle = Puzzle(...)
new_puzzle(p) ==
    /\ puzzle' = p
    /\ ret' = PyNone
    /\ call' = Called("new_puzzle", S(p.question), <<>>)
    /\ UNCHANGED <<path, hp, hist, flags, inventory, achievements, map, file,
                   ticker, npcs, log, messages, ledger, renderer>>

\* story.current_puzzle.attempt(story, choice_index)
attempt(choice_index) ==
    /\ puzzle # PyNone
    /\ Len(log) < MaxLog
    /\ LET st0 == [path |-> path, hp |-> hp, hist |-> hist, flags |-> flags,
                   map |-> map, calls |-> <<>>]
           r == Puzzle_attempt(st0, log, puzzle, choice_index)
       IN /\ path' = r.st.path
          /\ hp' = r.st.hp
          /\ hist' = r.st.hist
          /\ flags' = r.st.flags
          /\ map' = r.st.map
          /\ log' = r.log
          /\ messages' = messages \o SubSeq(r.log, Len(log) + 1, Len(r.log))
          /\ ret' = r.ret
          /\ call' = [op |-> "attempt", answer |-> choice_index, path0 |-> path,
                      calls |-> r.st.calls, before |-> Before]
    /\ UNCHANGED <<inventory, achievements, file, ticker, npcs, ledger, puzzle,
                   renderer>>

NextPuzzle ==
    \/ \E p \in Puzzles : new_puzzle(p)
    \/ \E choice_index \in Indexes : attempt(choice_index)

SpecPuzzle == Init /\ [][NextPuzzle]_vars

----------------------------------------------------------------------------
(* Claims about path traversal, checked under SpecNav *)

IsError(v) == Has(v, "error")
Resolves(p) == Walk(Database, p).exc = ""
NodeAt(p) == Walk(Database, p).node
AnswersOf(node) == IF Has(node, "answers") THEN node.d["answers"] ELSE EmptyDict

\* The last call was step(answer) on a cursor that resolved to a node
StepOnNode ==
    /\ call.op = "step"
    /\ Resolves(call.path0)
    /\ NodeAt(call.path0).t = "dict"

InvalidAnswerCall ==
    /\ StepOnNode
    /\ call.answer.t = "str"
    /\ ~Has(AnswersOf(NodeAt(call.path0)), call.answer.s)

ValidAnswerCall ==
    /\ StepOnNode
    /\ call.answer.t = "str"
    /\ Has(AnswersOf(NodeAt(call.path0)), call.answer.s)

ChoiceOfCall == AnswersOf(NodeAt(call.path0)).d[call.answer.s]

\* The cursor a callable stored under "function" leaves, given the cursor p
\* it found
CursorLeftBy(v, p) ==
    IF Has(v, "function") /\ Callable(v.d["function"])
       /\ v.d["function"].f.op = "jump_to"
    THEN v.d["function"].f.path
    ELSE p

\* C1 as stated: step with an answer that is no key of the current node's
\* answers returns an error result and leaves the cursor as it was before
\* the call, whatever the node's entry function does.
C1_Original ==
    InvalidAnswerCall => IsError(ret) /\ path = call.path0

\* C1 as amended: step with an answer that is no key of the current node's
\* answers returns an error result and does not itself write the cursor:
\* the cursor after the call is the one the node's entry function left,
\* which is the cursor before the call unless that function moved it.
C1_Amended ==
    InvalidAnswerCall =>
        /\ IsError(ret)
        /\ path = CursorLeftBy(NodeAt(call.path0), call.path0)
        /\ (call.calls = <<>> => path = call.path0)

\* Witness of C1: an invalid answer at start, whose entry function lowers hp:
\* the error is returned, the entry function has run, the cursor is where it
\* was.
C1_Witness ==
    /\ InvalidAnswerCall
    /\ call.path0 = <<"start">>
    /\ call.calls = <<"node">>
    /\ hp < InitialHp
    /\ ret = ErrBadChoice
    /\ path = <<"start">>

\* C2: when a segment of the cursor is absent from the database at its
\* depth, step returns an error result, does not raise, invokes no callback
\* and leaves the cursor unchanged.
C2_Claim ==
    (call.op = "step" /\ ~Resolves(call.path0)) =>
        /\ IsError(ret)
        /\ call.calls = <<>>
        /\ path = call.path0

\* C3: step with a valid answer whose choice declares next_path leaves the
\* cursor equal to that sequence and returns the database node it addresses;
\* without next_path the cursor is unchanged and the current node returned.
C3_Claim ==
    ValidAnswerCall =>
        IF Has(ChoiceOfCall, "next_path")
        THEN /\ path = ChoiceOfCall.d["next_path"].l
             /\ Resolves(path)
             /\ ret = NodeAt(path)
        ELSE /\ path = call.path0
             /\ ret = NodeAt(call.path0)

\* C4: every value step returns is an error result or the database node the
\* cursor addresses when step returns; it is an error result when that
\* cursor does not resolve.
C4_Claim ==
    (call.op = "step" /\ ret.t # "raise") =>
        \/ IsError(ret)
        \/ Resolves(path) /\ ret = NodeAt(path)

\* The callbacks a step on this node with this answer is to invoke, in order
FunctionCalls(node, choice) ==
    (IF Has(node, "function") /\ Callable(node.d["function"])
     THEN <<"node">> ELSE <<>>)
    \o (IF Has(choice, "function") /\ Callable(choice.d["function"])
        THEN <<"choice">> ELSE <<>>)

\* C20: every step whose cursor resolves to a node invokes the node's entry
\* function, if it has one, once and before the answer is looked up, also
\* when the answer is invalid; the function of the choice is invoked only
\* for a valid answer, once, after the entry function and before the cursor
\* is replaced by next_path.
C20_Theorem ==
    (StepOnNode /\ ~Falsy(NodeAt(call.path0))) =>
        /\ call.calls = FunctionCalls(NodeAt(call.path0),
                                      IF ValidAnswerCall THEN ChoiceOfCall
                                      ELSE PyNone)
        /\ (ValidAnswerCall /\ Has(ChoiceOfCall, "next_path")) =>
              path = ChoiceOfCall.d["next_path"].l

\* Witness of C20: step('back') at the trap has invoked the entry function,
\* then the function of the choice, which moves the cursor, and then
\* replaced the cursor by next_path.
C20_Witness ==
    /\ ValidAnswerCall
    /\ call.path0 = <<"trap">>
    /\ call.answer = S("back")
    /\ call.calls = <<"node", "choice">>
    /\ path = <<"start">>
    /\ hp = InitialHp

----------------------------------------------------------------------------
(* Claims about saving and loading, checked under SpecSave *)

\* The last call was a load_state of the file the call before it saved
LoadedAfterSave == call.op = "load_state" /\ call.after_save

\* The last call was a load_state that failed
FailedLoad == call.op = "load_state" /\ LoadFails(file)

\* save_state then load_state of the terminal variant, from this state
RoundTrip_tui ==
    LoadState_tui(Json(SavedState_tui(hp, inventory, achievements)),
                  [hp |-> hp, achievements |-> achievements,
                   inventory |-> inventory, error |-> FALSE])

\* C11: save_state followed by load_state of the same file restores hp,
\* achievements, flags, path and the name and description of every occupied
\* slot, leaves the other slots unoccupied, and resets the equip callbacks
\* to a no-op; the terminal variant, which saves and loads hp, inventory and
\* achievements only, restores those and touches nothing else.
C11_Theorem ==
    /\ LoadedAfterSave =>
          /\ ret = PyNone
          /\ Observed = call.before
          /\ \A i \in DOMAIN inventory :
                inventory[i][2] # <<>> => inventory[i][2][3] = "noop"
    /\ ~RoundTrip_tui.error
    /\ RoundTrip_tui.hp = hp
    /\ RoundTrip_tui.achievements = achievements
    /\ Story_get_items(RoundTrip_tui.inventory) = Story_get_items(inventory)

\* Witness of C11: a load after a save that restored an occupied slot, an
\* achievement, a flag and a path, with the equip callback reset.
C11_Witness ==
    /\ LoadedAfterSave
    /\ "Head" \in DOMAIN Story_get_items(inventory)
    /\ Lookup(inventory, "Head")[3] = "noop"
    /\ ledger.slots["Head"] = <<"Helm", "Iron">>
    /\ "First" \in DOMAIN achievements
    /\ "waited" \in DOMAIN flags
    /\ path = <<"start">>

\* C12: a load_state that fails does not raise, reports the failure as a
\* message, and leaves hp, achievements, inventory, flags and path as they
\* were.
C12_Claim ==
    FailedLoad =>
        /\ ret.t # "raise"
        /\ messages # <<>>
        /\ Observed = call.before

----------------------------------------------------------------------------
(* Claims about NPCs, checked under SpecNpc *)

TalkedTo(name) == call.op = "talk_to" /\ call.name = name

\* The cursor of a registered NPC resolves in its dialogue
NpcResolves(npc) == Walk(DialogueOf(npc.dialogue), npc.dialogue_path).exc = ""
NpcNode(npc) == Walk(DialogueOf(npc.dialogue), npc.dialogue_path).node

\* C13: when the cursor of the NPC talked to does not resolve in its
\* dialogue, before the call or after following a response, talk_to returns
\* an error result and does not raise.
C13_Claim ==
    \A name \in DOMAIN npcs :
        (TalkedTo(name) /\ name \in DOMAIN call.before.npcs
                        /\ ~NpcResolves(npcs[name])) => IsError(ret)

\* The response of the node the NPC stood at that the call chose, if any
ChosenResponse(name) ==
    LET npc == call.before.npcs[name]
        node == NpcNode(npc)
        answers == IF Has(node, "responses") THEN node.d["responses"] ELSE EmptyDict
    IN IF NpcResolves(npc) /\ ~Falsy(call.answer) /\ Has(answers, call.answer.s)
       THEN answers.d[call.answer.s]
       ELSE PyNone

\* C14: talk_to leaves the main path and every other NPC's cursor as they
\* were; the cursor of the NPC talked to becomes the next path of the chosen
\* response when the choice is among the responses of its current node (the
\* root when the response declares none) and is unchanged otherwise; for a
\* name that is not registered talk_to returns None and changes nothing;
\* step and jump_to change no NPC.
C14_Theorem ==
    /\ [](call.op = "talk_to" =>
            /\ path = call.path0
            /\ DOMAIN npcs = DOMAIN call.before.npcs
            /\ \A n \in DOMAIN npcs \ {call.name} : npcs[n] = call.before.npcs[n]
            /\ call.name \in DOMAIN npcs =>
                  LET r == ChosenResponse(call.name) IN
                  npcs[call.name].dialogue_path =
                     IF r = PyNone
                     THEN call.before.npcs[call.name].dialogue_path
                     ELSE IF Has(r, "next") THEN r.d["next"].l ELSE <<>>
            /\ call.name \notin DOMAIN npcs =>
                  ret = PyNone /\ Before = call.before)
    /\ [][call'.op \in {"step", "jump_to"} => npcs' = npcs]_vars

\* Witness of C14: the merchant has followed "buy" to its shop while the
\* guard stands at its gate and the main path is at start.
C14_Witness ==
    /\ TalkedTo("merchant")
    /\ call.answer = S("buy")
    /\ "merchant" \in DOMAIN call.before.npcs
    /\ call.before.npcs["merchant"].dialogue_path = <<>>
    /\ npcs["merchant"].dialogue_path = <<"shop">>
    /\ "guard" \in DOMAIN npcs
    /\ npcs["guard"].dialogue_path = <<"gate">>
    /\ path = <<"start">>

\* C17 as stated: every achievement name ever added is present with the
\* description added last, whatever operations followed.
C17_Original ==
    \A k \in DOMAIN ledger.ach :
        k \in DOMAIN achievements /\ achievements[k] = ledger.ach[k]

\* C17 as amended: add_achievement maps the name to the description given,
\* without changing the number of entries when the name is present; every
\* operation other than load_state keeps every entry, and only
\* add_achievement changes a description, that of its own name; load_state
\* of a parseable file replaces the mapping by the file's achievements.
C17_Amended ==
    /\ [](call.op = "add_achievement" =>
            /\ call.answer.s \in DOMAIN achievements
            /\ achievements[call.answer.s] = ledger.ach[call.answer.s])
    /\ [][\/ load_state
          \/ \A k \in DOMAIN achievements :
                /\ k \in DOMAIN achievements'
                /\ \/ achievements'[k] = achievements[k]
                   \/ call'.op = "add_achievement" /\ call'.answer = S(k)]_vars
    /\ [][(call'.op = "add_achievement" /\ call'.answer.s \in DOMAIN achievements)
            => DOMAIN achievements' = DOMAIN achievements]_vars
    /\ [][(load_state /\ file.t = "json") =>
            achievements' = Get(file.d, "achievements", <<>>)]_vars

\* Witness of C17: an achievement saved with one description has been
\* added again with another, and is there once.
C17_Witness ==
    /\ call.op = "add_achievement"
    /\ DOMAIN achievements = {"First"}
    /\ achievements["First"] = "Came back"
    /\ file.t = "json"
    /\ "achievements" \in DOMAIN file.d
    /\ "First" \in DOMAIN file.d.achievements
    /\ file.d.achievements["First"] = "Left the village"

----------------------------------------------------------------------------
(* Claims about the inventory, checked under SpecInv *)

\* The slots whose last operation was add_item
LastAdded == { k \in DOMAIN ledger.slots : ledger.slots[k] # <<>> }

\* The slots added and removed since
RemovedSince == { k \in ledger.added : ledger.slots[k] = <<>> }

\* C15: get_items holds exactly the slots whose last operation was add_item,
\* each with the name and description of the item added last; their number
\* is the number of slots ever added less those removed since; both
\* variants of get_items report the same.
C15_Theorem ==
    LET items == Story_get_items(inventory) IN
    /\ DOMAIN items = LastAdded
    /\ \A k \in DOMAIN items :
          items[k] = [name |-> ledger.slots[k][1],
                      description |-> ledger.slots[k][2]]
    /\ Cardinality(DOMAIN items) =
          Cardinality(ledger.added) - Cardinality(RemovedSince)
    /\ Story_get_items_tui(inventory) = items

\* Witness of C15: an add_item on an occupied slot has replaced its item,
\* while another slot was added and removed.
C15_Witness ==
    /\ call.op = "add_item"
    /\ call.answer = S("Head")
    /\ "Head" \in DOMAIN call.before
    /\ call.before["Head"].name = "Helm"
    /\ Story_get_items(inventory)["Head"].name = "Cap"
    /\ "Neck" \in RemovedSince

\* C16: the slot keys of the inventory are the 11 slot names of the
\* constructor, whatever add_item, remove_item and load_state are given.
C16_Claim ==
    /\ Keys(inventory) = { Slots[i] : i \in DOMAIN Slots }
    /\ Len(inventory) = Len(Slots)

----------------------------------------------------------------------------
(* Claims about puzzles, checked under SpecPuzzle *)

\* The callback an attempt with this outcome invokes, if the puzzle has it
CallbackCalls(p, solved) ==
    IF solved
    THEN IF Falsy(p.on_success) THEN <<>> ELSE <<"on_success">>
    ELSE IF Falsy(p.on_fail) THEN <<>> ELSE <<"on_fail">>

\* C18: attempt(i) returns true iff i is the answer index of the puzzle; a
\* true attempt invokes on_success once and not on_fail, a false attempt
\* on_fail once and not on_success (when the puzzle has the callback); each
\* attempt appends one log entry, solved or failed; the puzzle is not
\* changed, so the outcome does not depend on the attempts before.
C18_Theorem ==
    call.op = "attempt" =>
        LET p == call.before.puzzle
            solved == call.answer = p.answer_index
        IN /\ ret = B(solved)
           /\ call.calls = CallbackCalls(p, solved)
           /\ log = Append(call.before.log,
                           Entry(<<IF solved THEN "Puzzle solved"
                                   ELSE "Puzzle failed", p.question>>))
           /\ puzzle = p

\* Witness of C18: the same puzzle solved, failed and solved again, each
\* attempt with its callback.
C18_Witness ==
    /\ call.op = "attempt"
    /\ ret = B(TRUE)
    /\ call.calls = <<"on_success">>
    /\ log = << Entry(<<"Puzzle solved", "Riddle">>),
                Entry(<<"Puzzle failed", "Riddle">>),
                Entry(<<"Puzzle solved", "Riddle">>) >>
    /\ hp = InitialHp - 1

----------------------------------------------------------------------------
(* Claims about hit points, checked under SpecHp *)

\* C5: hp is never negative, whatever modify_hp calls are made and whatever
\* parseable state file is loaded.
C5_Claim == hp >= 0

\* C6 as stated: after modify_hp(d1) ... modify_hp(dn) from h0, hp is the
\* clamp of the total, max(0, h0 + d1 + ... + dn).
C6_Original ==
    (1 <= hist.n /\ hist.n <= MaxMods) => hp = Max(0, hist.s)

\* C6 as amended: hp is clamped at zero after every call, so after
\* modify_hp(d1) ... modify_hp(dn) from h0 it is the total h0 + d1 + ... + dn
\* less the lowest negative partial sum (less nothing when no partial sum is
\* negative, and then it is the total); both variants of modify_hp compute
\* the same value.
C6_Amended ==
    hist.n <= MaxMods =>
        /\ hp = hist.s - hist.m
        /\ (hist.m = 0 /\ hist.h0 >= 0 => hp = Max(0, hist.s))
        /\ \A a \in Amounts :
              HealthSystem_modify_hp_tui(hp, a) = HealthSystem_modify_hp(hp, a)

\* Witness of C6: a decrease below zero followed by an increase; hp is above
\* the clamp of the total.
C6_Witness ==
    /\ hist.n = 2
    /\ hist.h0 = InitialHp
    /\ hist.m < 0
    /\ hp > Max(0, hist.s)

----------------------------------------------------------------------------
(* Effects, the tick thread and stop().  The tick thread runs beside the   *)
(* foreground without a lock, so each statement of _run_tick and each      *)
(* iteration of the loops of _update_effects is a step of its own.         *)

EffectNames == {"x", "y"}
Durations == {0, 1, 2}
TickFunctions == {"none", "noop", "stop"}

\* The k-th message printed, by the tick callback or by the foreground: a
\* (message, style) pair
Message(who, k) == << <<who, k>>, "plain" >>

\* Effect.__init__, with the history of the object: d0 the duration it was
\* registered with, applies / expires the calls of its callbacks, aged the
\* decrements, seen the snapshots of _update_effects that held it, gone how
\* it left Story.effects ("replaced" or "deleted"), expired_as whether it
\* was still the effect under its name when expire was called
Effect(name, duration, expire) ==
    [name |-> name, duration |-> duration, expire |-> expire,
     d0 |-> duration, applies |-> 0, expires |-> 0, aged |-> 0, seen |-> 0,
     gone |-> "", expired_as |-> ""]

Ids == DOMAIN eff
Active(id) == eff[id].name \in Keys(effects) /\ Lookup(effects, eff[id].name) = id

\* Story.__init__ with a tick configuration: the thread is started when a
\* tick_function is given
InitFx ==
    /\ InitStory
    /\ tick_function \in TickFunctions
    /\ auto_save \in BOOLEAN
    /\ tick = [pc |-> IF tick_function = "none" THEN "none" ELSE "while",
               snapshot |-> <<>>, expired |-> <<>>]

\* Story.apply_effect(effect): self.effects[effect.name] = effect, then
\* effect.apply(self)
apply_effect(name, duration, expire) ==
    /\ fg.pc = "ready"
    /\ Len(eff) < MaxEffects
    /\ LET id == Len(eff) + 1
           old == [i \in Ids |-> IF Active(i) /\ eff[i].name = name
                                 THEN [eff[i] EXCEPT !.gone = "replaced"]
                                 ELSE eff[i]]
       IN /\ effects' = Store(effects, name, id)
          /\ eff' = Append(old, [Effect(name, duration, expire) EXCEPT !.applies = 1])
    /\ ret' = PyNone
    /\ call' = Called("apply_effect", PyNone, <<>>)
    /\ UNCHANGED <<path, hp, hist, flags, inventory, achievements, map, file,
                   tick_function, auto_save, stop_flag, tick, fg>>
    /\ UNCHANGED others

\* stop() that returns without joining the tick thread
stop_no_join ==
    /\ fg.pc = "ready"
    /\ stop_flag' = TRUE
    /\ fg' = [pc |-> "ready", stop |-> "returned"]
    /\ ret' = PyNone
    /\ call' = Called("stop", PyNone, <<>>)
    /\ UNCHANGED <<path, hp, hist, flags, inventory, achievements, map, file,
                   tick_function, auto_save, effects, eff, tick>>
    /\ UNCHANGED others

\* Story.stop() called by the foreground: self._stop = True, then
\* self._tick_thread.join() if there is a thread
stop ==
    /\ fg.pc = "ready"
    /\ stop_flag' = TRUE
    /\ fg' = IF tick.pc = "none"
             THEN [pc |-> "ready", stop |-> "returned"]
             ELSE [pc |-> "joining", stop |-> "joining"]
    /\ ret' = PyNone
    /\ call' = Called("stop", PyNone, <<>>)
    /\ UNCHANGED <<path, hp, hist, flags, inventory, achievements, map, file,
                   tick_function, auto_save, effects, eff, tick>>
    /\ UNCHANGED others

\* Thread.join() returns once the tick thread has ended
stop_join ==
    /\ fg.pc = "joining"
    /\ tick.pc \in {"done", "dead"}
    /\ fg' = [pc |-> "ready", stop |-> "returned"]
    /\ UNCHANGED <<story, file, call, tick_function, auto_save, stop_flag,
                   effects, eff, tick>>
    /\ UNCHANGED others

\* _run_tick: while not self._stop
tick_while ==
    /\ tick.pc = "while"
    /\ tick' = [tick EXCEPT !.pc = IF stop_flag THEN "done" ELSE "tickfn"]
    /\ UNCHANGED <<story, file, call, tick_function, auto_save, stop_flag,
                   effects, eff, fg>>
    /\ UNCHANGED others

\* _run_tick: self.tick_function(self).  A callback that calls stop() sets
\* the flag and joins the thread it runs on: join raises RuntimeError, which
\* leaves the callback and _run_tick, and the thread ends.  A callback that
\* prints appends its message to Story._messages
tick_callback ==
    /\ tick.pc = "tickfn"
    /\ tick_function = "print" => renderer.n < MaxPrints
    /\ IF tick_function = "stop"
       THEN /\ stop_flag' = TRUE
            /\ tick' = [tick EXCEPT !.pc = "dead"]
       ELSE /\ tick' = [tick EXCEPT !.pc = "snap"]
            /\ UNCHANGED stop_flag
    /\ IF tick_function = "print"
       THEN /\ messages' = Append(messages, Message("tick", renderer.n + 1))
            /\ renderer' = [renderer EXCEPT !.n = @ + 1]
       ELSE UNCHANGED <<messages, renderer>>
    /\ UNCHANGED <<story, file, call, tick_function, auto_save, effects, eff, fg>>
    /\ UNCHANGED <<npcs, log, ledger, puzzle>>

\* _update_effects: expired = []; list(self.effects.items())
tick_snapshot ==
    /\ tick.pc = "snap"
    /\ tick' = [pc |-> "age", snapshot |-> effects, expired |-> <<>>]
    /\ eff' = [i \in Ids |-> IF Active(i) THEN [eff[i] EXCEPT !.seen = @ + 1]
                             ELSE eff[i]]
    /\ UNCHANGED <<story, file, call, tick_function, auto_save, stop_flag,
                   effects, fg>>
    /\ UNCHANGED others

\* _update_effects: one iteration of the first loop, on the Effect object
\* the snapshot holds
tick_age ==
    /\ tick.pc = "age"
    /\ tick.snapshot # <<>>
    /\ LET name == Head(tick.snapshot)[1]
           id == Head(tick.snapshot)[2]
           d == eff[id].duration - 1
           fires == d <= 0 /\ eff[id].expire
       IN /\ eff' = [eff EXCEPT ![id].duration = d,
                                ![id].aged = @ + 1,
                                ![id].expires = IF fires THEN @ + 1 ELSE @,
                                ![id].expired_as =
                                    IF ~fires THEN @
                                    ELSE IF Active(id) THEN "active"
                                    ELSE "replaced"]
          /\ tick' = [tick EXCEPT !.snapshot = Tail(@),
                                  !.expired = IF d <= 0 THEN Append(@, name) ELSE @]
    /\ UNCHANGED <<story, file, call, tick_function, auto_save, stop_flag,
                   effects, fg>>
    /\ UNCHANGED others

\* _update_effects: for name in expired: del self.effects[name]
tick_delete ==
    /\ tick.pc = "age"
    /\ tick.snapshot = <<>>
    /\ LET names == { tick.expired[i] : i \in DOMAIN tick.expired }
       IN /\ effects' = SelectSeq(effects, LAMBDA e : e[1] \notin names)
          /\ eff' = [i \in Ids |-> IF Active(i) /\ eff[i].name \in names
                                   THEN [eff[i] EXCEPT !.gone = "deleted"]
                                   ELSE eff[i]]
    /\ tick' = [pc |-> "save", snapshot |-> <<>>, expired |-> <<>>]
    /\ UNCHANGED <<story, file, call, tick_function, auto_save, stop_flag, fg>>
    /\ UNCHANGED others

\* _run_tick: if self.auto_save: self.save_state(self.auto_save)
tick_autosave ==
    /\ tick.pc = "save"
    /\ file' = IF auto_save
               THEN Json(SavedState(hp, inventory, achievements, flags, path))
               ELSE file
    /\ tick' = [tick EXCEPT !.pc = "sleep"]
    /\ UNCHANGED <<story, call, tick_function, auto_save, stop_flag, effects,
                   eff, fg>>
    /\ UNCHANGED others

\* _run_tick: time.sleep(self.tick_interval)
tick_sleep ==
    /\ tick.pc = "sleep"
    /\ tick' = [tick EXCEPT !.pc = "while"]
    /\ UNCHANGED <<story, file, call, tick_function, auto_save, stop_flag,
                   effects, eff, fg>>
    /\ UNCHANGED others

\* The steps of the tick thread
TickNext ==
    \/ tick_while
    \/ tick_callback
    \/ tick_snapshot
    \/ tick_age
    \/ tick_delete
    \/ tick_autosave
    \/ tick_sleep

NextFx ==
    \/ \E name \in EffectNames, duration \in Durations, expire \in BOOLEAN :
          apply_effect(name, duration, expire)
    \/ stop
    \/ stop_join
    \/ TickNext

SpecFx == InitFx /\ [][NextFx]_vars

\* The tick thread is a thread of its own, which the scheduler runs while
\* it can take a step (its sleep ends), and join returns once it can
FairFx == SpecFx /\ WF_vars(TickNext) /\ WF_vars(stop_join)

\* stop() and the tick thread, with one effect name to age
NextStop ==
    \/ \E duration \in Durations : apply_effect("x", duration, TRUE)
    \/ stop
    \/ stop_join
    \/ TickNext

FairStop ==
    InitFx /\ [][NextStop]_vars /\ WF_vars(TickNext) /\ WF_vars(stop_join)

----------------------------------------------------------------------------
(* The message buffer: the tick callback prints beside the foreground,     *)
(* which prints on a button press and displays and clears the buffer in    *)
(* StoryApp.compose.                                                       *)

\* Story.__init__ with a tick callback that prints
InitMsg ==
    /\ InitStory
    /\ tick_function = "print"
    /\ auto_save = FALSE
    /\ tick = [pc |-> "while", snapshot |-> <<>>, expired |-> <<>>]

\* Story.print(message, style) called by the foreground
Story_print ==
    /\ renderer.pc = "idle"
    /\ renderer.n < MaxPrints
    /\ messages' = Append(messages, Message("fg", renderer.n + 1))
    /\ renderer' = [renderer EXCEPT !.n = @ + 1]
    /\ ret' = PyNone
    /\ call' = Called("print", PyNone, <<>>)
    /\ UNCHANGED <<path, hp, hist, flags, inventory, achievements, map, file,
                   ticker, npcs, log, ledger, puzzle>>

\* StoryApp.compose: messages = self.story.get_messages(), joined into the
\* text it displays
compose_get_messages ==
    /\ renderer.pc = "idle"
    /\ renderer' = [renderer EXCEPT !.pc = "clear", !.shown = messages]
    /\ UNCHANGED <<story, file, call, ticker, npcs, log, messages, ledger, puzzle>>

\* StoryApp.compose: self.story.clear_messages().  The history keeps the
\* messages cleared that the read before did not display
compose_clear_messages ==
    /\ renderer.pc = "clear"
    /\ messages' = <<>>
    /\ renderer' = [renderer EXCEPT
                      !.pc = "idle",
                      !.lost = @ \cup ({ messages[i] : i \in DOMAIN messages }
                                       \ { renderer.shown[i] : i \in DOMAIN renderer.shown })]
    /\ UNCHANGED <<story, file, call, ticker, npcs, log, ledger, puzzle>>

NextMsg ==
    \/ Story_print
    \/ apply_effect("x", 1, FALSE)
    \/ compose_get_messages
    \/ compose_clear_messages
    \/ TickNext

SpecMsg == InitMsg /\ [][NextMsg]_vars

----------------------------------------------------------------------------
(* Claims about the message buffer, checked under SpecMsg *)

\* The messages of a sequence are in the order they were printed
InPrintOrder(q) == \A i, j \in DOMAIN q : i < j => q[i][1][2] < q[j][1][2]

\* C21: every message appended to the buffer, by the foreground or by the
\* tick thread, is displayed by a read of the renderer before the renderer
\* clears it, and the messages are read in the order they were appended.
C21_Claim ==
    /\ renderer.lost = {}
    /\ InPrintOrder(messages)
    /\ InPrintOrder(renderer.shown)

----------------------------------------------------------------------------
(* The story map under step, jump_to, load_state and the tick thread       *)

InitMap ==
    /\ InitStory
    /\ tick_function = "noop"
    /\ auto_save = FALSE
    /\ tick = [pc |-> "while", snapshot |-> <<>>, expired |-> <<>>]

MapAnswers == { PyNone, S("fall") }
MapPaths == { <<"start">>, <<"cave", "condition", "x">> }

NextMap ==
    \/ \E answer \in MapAnswers : step(answer)
    \/ \E new_path \in MapPaths : jump_to(new_path)
    \/ load_state
    \/ \E f \in NavFiles : ExternalWrite(f)
    \/ apply_effect("x", 1, FALSE)
    \/ TickNext

SpecMap == InitMap /\ [][NextMap]_vars

\* C22: the story map only grows under step, jump_to, load_state and the
\* tick thread; every path the cursor was resolved at is recorded, the one
\* step starts from and the one it returns the node of; every recorded
\* path resolves in the database.
C22_Theorem ==
    /\ [][map \subseteq map']_vars
    /\ [](\A p \in map : Resolves(p))
    /\ []((call.op = "step" /\ Resolves(call.path0)) => call.path0 \in map)
    /\ []((call.op = "step" /\ ret.t # "raise" /\ ~IsError(ret) /\ Resolves(path))
            => path \in map /\ ret = NodeAt(path))
    /\ [][call'.op \in {"jump_to", "load_state"} \/ TickNext => map' = map]_vars

\* Witness of C22: step has left the cursor at a path that does not
\* resolve; the map holds the paths resolved before and not this one.
C22_Witness ==
    /\ call.op = "step"
    /\ path = <<"pit">>
    /\ <<"pit">> \notin map
    /\ {<<>>, <<"start">>} \subseteq map
    /\ tick.pc = "sleep"
    /\ file.t = "json"

----------------------------------------------------------------------------
(* Claims about effects and the tick thread, checked under SpecFx, FairFx  *)
(* and FairStop                                                            *)

\* The tick on which an effect registered with duration d is due
DueTick(d) == Max(1, d)

\* C7: apply is invoked exactly once, at registration, and by no tick; each
\* tick lowers the duration of every active effect by exactly 1; an effect
\* that is not replaced is removed on the tick it is due (the d-th, or the
\* first when d <= 0) and not earlier, with its expire invoked exactly once.
C7_Claim ==
    \A id \in Ids :
        /\ eff[id].applies = 1
        /\ eff[id].gone # "replaced" =>
              /\ eff[id].duration = eff[id].d0 - eff[id].aged
              /\ eff[id].aged <= eff[id].seen /\ eff[id].seen <= eff[id].aged + 1
              /\ eff[id].expires <= 1
              /\ eff[id].expires = 1 => eff[id].aged = DueTick(eff[id].d0)
              /\ eff[id].gone = "deleted" =>
                    /\ eff[id].aged = DueTick(eff[id].d0)
                    /\ eff[id].seen = DueTick(eff[id].d0)
                    /\ eff[id].expire => eff[id].expires = 1

\* C8: registering an effect under the name of an active one replaces it:
\* the name holds one effect, the new one; the replaced effect's expire is
\* invoked neither at the replacement nor later; the new effect's apply is
\* invoked once.
C8_Claim ==
    /\ Cardinality(Keys(effects)) = Len(effects)
    /\ \A id \in Ids :
          /\ eff[id].applies = 1
          /\ eff[id].gone = "replaced" =>
                /\ ~Active(id)
                /\ eff[id].expired_as # "replaced"

\* C9: in a Story on which stop() is never called, every registered effect
\* is eventually removed from the active set.
C9_Claim ==
    \/ <>stop_flag
    \/ \A i \in 1..MaxEffects : (i \in Ids) ~> (i \in Ids /\ ~Active(i))

\* C19: under every interleaving of apply_effect with the aging of the tick
\* thread, an effect is deleted from the active set only after its own
\* duration was lowered to 0 or less and its expire, if it has one, invoked;
\* an effect registered while an iteration is in progress is not removed by
\* that iteration without having been aged and expired itself.
C19_Claim ==
    \A id \in Ids :
        eff[id].gone = "deleted" =>
            /\ eff[id].aged >= 1
            /\ eff[id].duration <= 0
            /\ eff[id].expire => eff[id].expires >= 1

\* C10: stop() sets the flag and terminates; once it has returned, the
\* flag is set, the tick thread has ended and takes no further step (no
\* tick callback, no aging, no autosave); a stop() made by the tick callback
\* sets the flag and ends the tick thread.
C10_Theorem ==
    /\ [](fg.stop = "returned" =>
             stop_flag /\ tick.pc \in {"none", "done", "dead"})
    /\ [](tick.pc = "dead" => stop_flag)
    /\ [][fg.stop = "returned" => ~TickNext]_vars
    /\ (fg.pc = "joining" ~> fg.stop = "returned")

\* Witness of C10: stop() has returned after the tick thread aged an effect
\* that is still active; the thread has ended and will not age it again.
C10_Witness ==
    /\ fg.stop = "returned"
    /\ tick.pc = "done"
    /\ \E id \in Ids : Active(id) /\ eff[id].aged = 1 /\ eff[id].duration = 1

====
